---- MODULE Spec2Model ----
(***************************************************************************)
(* Model of src/main.py: the Avito monitor bot.                            *)
(*                                                                         *)
(*  - Storage (the dedup store), PriceReference (the reference index and   *)
(*    the text matcher) and the profitability filter are operators;        *)
(*  - MonitorBot.monitor_loop is a state machine whose positions are the   *)
(*    awaits of the coroutine (plus the synchronous positions "top",       *)
(*    "item", "report", at which no handler can run);                      *)
(*  - the aiogram handlers manual, toggle_mode and toggle_pause are        *)
(*    actions that may run whenever the loop is suspended at an await.     *)
(*                                                                         *)
(* Text is a sequence of one-character strings.  The Cyrillic letters of   *)
(* the capacity units are written "cyr_g", "cyr_b", "cyr_t".               *)
(***************************************************************************)
EXTENDS Integers, Sequences, FiniteSets, TLC

\* ------------------------------------------------------------------ bounds
\* Longest scraper result of one cycle.
MaxItems == 2
\* Number of scan cycles a behaviour may start.
MaxCycles == 2
\* Number of times the operator presses the manual-trigger button.
MaxRaises == 1

\* ------------------------------------------------------------------ options
\* Python's Optional: None is the empty sequence, a value x is <<x>>.
None == <<>>
Some(x) == <<x>>

\* ------------------------------------------------------------------ text
Digit == {"0", "1", "2", "3", "4", "5", "6", "7", "8", "9"}
Upper == {"G", "B", "T", "P", "I"}
Letter ==
  {"g", "b", "t", "i", "p", "h", "o", "n", "e", "r", "x", "a", "cyr_g", "cyr_b", "cyr_t"}

IsDigit(c) == c \in Digit
\* \s of the regular expressions
IsSpace(c) == c = " "
\* \w of the regular expressions
IsWord(c) == c \in Digit \cup Letter \cup Upper \cup {"_"}

LowerChar(c) ==
  CASE c = "G" -> "g"
    [] c = "B" -> "b"
    [] c = "T" -> "t"
    [] c = "P" -> "p"
    [] c = "I" -> "i"
    [] OTHER -> c

\* str.lower()
Lower(t) == [i \in 1..Len(t) |-> LowerChar(t[i])]

\* s in t
IsSubstr(s, t) ==
  \E i \in 1..(Len(t) + 1) :
    /\ i + Len(s) - 1 <= Len(t)
    /\ \A k \in 1..Len(s) : t[i + k - 1] = s[k]

\* s.replace(" ", "")
RECURSIVE StripBlanks(_)
StripBlanks(s) ==
  IF s = <<>> THEN <<>>
  ELSE IF Head(s) = " " THEN StripBlanks(Tail(s))
  ELSE <<Head(s)>> \o StripBlanks(Tail(s))

\* ------------------------------------------------------------------ extract_memory
GB == <<"g", "b">>
TB == <<"t", "b">>
CyrGB == <<"cyr_g", "cyr_b">>
CyrTB == <<"cyr_t", "cyr_b">>
OneTB == <<"1", "t", "b">>

\* the index of the first character at or after j that is no whitespace (\s*)
RECURSIVE SkipSpace(_, _)
SkipSpace(t, j) ==
  IF j <= Len(t) /\ IsSpace(t[j]) THEN SkipSpace(t, j + 1) ELSE j

\* the two characters at j, or <<>> past the end
TwoAt(t, j) == IF j + 1 <= Len(t) THEN <<t[j], t[j + 1]>> ELSE <<>>

\* \b after the word character at j - 1
BoundaryAt(t, j) == j > Len(t) \/ ~IsWord(t[j])

DigitsAt(t, i, n) == i + n - 1 <= Len(t) /\ \A k \in i..(i + n - 1) : IsDigit(t[k])

\* (\d{2,4})\s*(gb|гб|tb|тб)\b matches at i with n digits
UnitMatchAt(t, i, n) ==
  /\ DigitsAt(t, i, n)
  /\ LET j == SkipSpace(t, i + n)
     IN  TwoAt(t, j) \in {GB, CyrGB, TB, CyrTB} /\ BoundaryAt(t, j + 2)

\* \b1\s*(tb|тб)\b matches at i
OneTbMatchAt(t, i) ==
  /\ t[i] = "1"
  /\ (i = 1 \/ ~IsWord(t[i - 1]))
  /\ LET j == SkipSpace(t, i + 1)
     IN  TwoAt(t, j) \in {TB, CyrTB} /\ BoundaryAt(t, j + 2)

\* the alternatives of (64|128|256|512|1024|1\s?тб|1tb), in their order
BareAlternatives ==
  << <<"6", "4">>, <<"1", "2", "8">>, <<"2", "5", "6">>, <<"5", "1", "2">>,
     <<"1", "0", "2", "4">>, <<"1", "cyr_t", "cyr_b">>, <<"1", " ", "cyr_t", "cyr_b">>,
     OneTB >>

LiteralAt(t, i, s) ==
  i + Len(s) - 1 <= Len(t) /\ \A k \in 1..Len(s) : t[i + k - 1] = s[k]

\* re.search: the leftmost position, and there the first alternative
BareMatch(t) ==
  LET hits == {i \in 1..Len(t) : \E a \in 1..Len(BareAlternatives) :
                                   LiteralAt(t, i, BareAlternatives[a])}
  IN  IF hits = {} THEN None
      ELSE LET i == CHOOSE x \in hits : \A y \in hits : x <= y
               a == CHOOSE x \in 1..Len(BareAlternatives) :
                      /\ LiteralAt(t, i, BareAlternatives[x])
                      /\ \A y \in 1..(x - 1) : ~LiteralAt(t, i, BareAlternatives[y])
           IN  Some(BareAlternatives[a])

extract_memory(text) ==
  LET t == Lower(text)
      starts == {i \in 1..Len(t) : \E n \in 2..4 : UnitMatchAt(t, i, n)}
  IN  IF starts # {}
      THEN LET i == CHOOSE x \in starts : \A y \in starts : x <= y
               \* \d{2,4} is greedy
               n == CHOOSE x \in 2..4 :
                      UnitMatchAt(t, i, x) /\ \A y \in (x + 1)..4 : ~UnitMatchAt(t, i, y)
               val == SubSeq(t, i, i + n - 1)
               unit == TwoAt(t, SkipSpace(t, i + n))
           IN  IF val = <<"1", "0", "2", "4">> \/ unit \in {TB, CyrTB}
               THEN Some(OneTB)
               ELSE Some(val \o GB)
      ELSE IF \E i \in 1..Len(t) : OneTbMatchAt(t, i)
      THEN Some(OneTB)
      ELSE LET m2 == BareMatch(t)
           IN  IF m2 = None THEN None
               ELSE LET v == StripBlanks(m2[1])
                    IN  IF v \in {<<"1", "0", "2", "4">>, <<"1", "cyr_t", "cyr_b">>, OneTB}
                        THEN Some(OneTB)
                        ELSE Some(v \o GB)

\* ------------------------------------------------------------------ reference index
Iphone11 == <<"i", "p", "h", "o", "n", "e", " ", "1", "1">>
Iphone13 == <<"i", "p", "h", "o", "n", "e", " ", "1", "3">>
Iphone13Pro == Iphone13 \o <<" ", "p", "r", "o">>
Mem64 == <<"6", "4", "g", "b">>
Mem128 == <<"1", "2", "8", "g", "b">>

\* self.rows as PriceReference.__init__ leaves it, in the order of the sheet
rows ==
  << [model |-> Iphone13, memory |-> Mem128, mean |-> 40000],
     [model |-> Iphone13Pro, memory |-> Mem128, mean |-> 50000],
     [model |-> Iphone11, memory |-> Mem64, mean |-> 5000] >>

\* sorted(rs, key=lambda x: len(x["model"]), reverse=True): stable, longest first
RECURSIVE SortedByModelLen(_)
SortedByModelLen(rs) ==
  IF rs = <<>> THEN <<>>
  ELSE LET longest == CHOOSE i \in 1..Len(rs) :
                        /\ \A j \in 1..Len(rs) : Len(rs[j].model) <= Len(rs[i].model)
                        /\ \A j \in 1..(i - 1) : Len(rs[j].model) < Len(rs[i].model)
           rest == [k \in 1..(Len(rs) - 1) |-> IF k < longest THEN rs[k] ELSE rs[k + 1]]
       IN  <<rs[longest]>> \o SortedByModelLen(rest)

\* variant of find_price_in: the rows are tried in the order of the sheet
find_price_unsorted(rs, title, description) ==
  LET t == Lower(title \o <<" ">> \o description)
      mem == extract_memory(t)
      hits == {i \in 1..Len(rs) : IsSubstr(rs[i].model, t) /\ Some(rs[i].memory) = mem}
  IN  IF mem = None THEN [avg |-> None, model |-> None, mem |-> None]
      ELSE IF hits = {} THEN [avg |-> None, model |-> None, mem |-> mem]
      ELSE LET i == CHOOSE x \in hits : \A y \in hits : x <= y
           IN  [avg |-> Some(rs[i].mean), model |-> Some(rs[i].model), mem |-> mem]

\* find_price over the rows rs of the PriceReference
find_price_in(rs, title, description) ==
  LET t == Lower(title \o <<" ">> \o description)
      mem == extract_memory(t)
      sorted == SortedByModelLen(rs)
      hits == {i \in 1..Len(sorted) :
                 IsSubstr(sorted[i].model, t) /\ Some(sorted[i].memory) = mem}
  IN  IF mem = None THEN [avg |-> None, model |-> None, mem |-> None]
      ELSE IF hits = {} THEN [avg |-> None, model |-> None, mem |-> mem]
      ELSE LET i == CHOOSE x \in hits : \A y \in hits : x <= y
           IN  [avg |-> Some(sorted[i].mean), model |-> Some(sorted[i].model), mem |-> mem]

\* self.prices.find_price of the bot: its rows are those of the loaded sheet
find_price(title, description) == find_price_in(rows, title, description)

\* ------------------------------------------------------------------ listings
\* AvitoParser.fetch keeps a card only if 5000 < price < 600000
MinPrice == 5000
MaxPrice == 600000

\* item["id"] of the listings the scraper may return
Ids == {"A1", "A2", "A4"}

TitleA1 ==
  <<"i", "P", "h", "o", "n", "e", " ", "1", "3", " ", "1", "2", "8", "G", "B">>
TitleA2 == Iphone11 \o <<" ">> \o Mem64
TitleA4 == <<"i", "P", "h", "o", "n", "e", " ", "1", "3">>

\* the cards of the result pages (the price of a card may differ between two scans)
AllListings ==
  { [id |-> "A1", title |-> TitleA1, description |-> <<>>, price |-> 38000],
    [id |-> "A2", title |-> TitleA2, description |-> <<>>, price |-> 6000],
    [id |-> "A2", title |-> TitleA2, description |-> <<>>, price |-> 6001],
    [id |-> "A4", title |-> TitleA4, description |-> <<>>, price |-> 30000],
    [id |-> "A4", title |-> TitleA4, description |-> <<>>, price |-> 4000] }

\* the dicts AvitoParser.fetch appends to its result

Catalog == {l \in AllListings : MinPrice < l.price /\ l.price < MaxPrice}

\* the results AvitoParser.fetch may return: any order, repetitions included
RECURSIVE SeqsUpTo(_, _)
SeqsUpTo(S, n) ==
  IF n = 0 THEN {<<>>}
  ELSE LET shorter == SeqsUpTo(S, n - 1)
       IN  shorter \cup {Append(q, x) : q \in {r \in shorter : Len(r) = n - 1}, x \in S}

FetchResults == SeqsUpTo(Catalog, MaxItems)

\* ------------------------------------------------------------------ filter
\* variant of TooExpensive: the comparison made with >= (the threshold excluded)
TooExpensiveOrEqual(price, avg) == 5 * price >= 6 * avg

\* item["price"] > avg * 1.2, in exact arithmetic (price and avg are whole numbers,
\* for which the float product avg * 1.2 decides the comparison the same way)
TooExpensive(price, avg) == 5 * price > 6 * avg

\* not avg
NoAvg(avg) == avg = None \/ avg = Some(0)

\* ------------------------------------------------------------------ state
VARIABLES
  pc,            \* where monitor_loop is suspended (or a synchronous position)
  is_paused,     \* self.is_paused
  mode_all,      \* self.mode_all
  last_manual,   \* self.last_manual
  event,         \* self.force_search_event: "None" before run(), else "set" / "clear"
  launch,        \* the branch of the wait that logged, "forced" or "auto", from the
                 \* return of the wait to the return of the fetch ("none" otherwise)
  sent,          \* the rows of table sent (Storage)
  items,         \* items of the cycle in progress
  idx,           \* index in items of the listing the for loop is at
  stats,         \* stats of the cycle in progress
  ai_text,       \* ai_text_safe of the listing in progress: "text", "fallback", "none"
  okSends,       \* history: per id, the notifications bot.send_message delivered
  lastFailed,    \* history: the id of the last listing whose send raised ("none")
  cycles,        \* history: scan cycles started
  raises,        \* history: presses of the manual-trigger button
  pendingRaise,  \* history: a press since the last cycle start
  cycleManual,   \* history: the cycle in progress consumed a manual trigger
  cycleMode,     \* history: self.mode_all when the cycle in progress started
  scrapeFailed,  \* history: the fetch of the cycle caught a PlaywrightError
  outcome,       \* history: how the last cycle ended, "running" while in progress
  checked,       \* history: listings of the cycle that reached the dedup check
  sheet,         \* the rows of the sheet a PriceReference is constructed from
  index,         \* self.rows of that PriceReference
  rpc,           \* that PriceReference: "rest", "new", "ready", "found", "extracted"
  query,         \* the arguments of its last find_price call
  answer,        \* what that call returned
  asked,         \* the argument of its last extract_memory call
  capacity       \* what that call returned

\* a PriceReference constructed and queried by itself (the second specification)
reference == <<sheet, index, rpc, query, answer, asked, capacity>>

vars ==
  <<pc, is_paused, mode_all, last_manual, event, launch, sent, items, idx, stats,
    ai_text, okSends, lastFailed, cycles, raises, pendingRaise, cycleManual, cycleMode,
    scrapeFailed, outcome, checked, reference>>

control == <<is_paused, mode_all, last_manual, event>>
delivery == <<okSends, lastFailed>>
history ==
  <<okSends, lastFailed, cycles, raises, pendingRaise, cycleManual, cycleMode, scrapeFailed,
    outcome, checked>>
cycleVars == <<items, idx, stats, ai_text, checked>>

\* the awaits of monitor_loop: only there can a handler run
Awaiting ==
  {"sleep1", "waiting", "woken", "fetching", "analyze", "send", "pace", "summary",
   "backoff"}

ZeroStats == [scanned |-> 0, new |-> 0, sent |-> 0, no_avg |-> 0, too_expensive |-> 0]

\* ------------------------------------------------------------------ Storage
is_sent(item_id) == item_id \in sent

\* variant of mark_sent: the table is rewritten to hold the new id alone
mark_sent_replacing(item_id) == {item_id}

\* INSERT OR IGNORE
mark_sent(item_id) == sent \cup {item_id}

\* ------------------------------------------------------------------ MonitorBot
\* MonitorBot.__init__
BotInit ==
  /\ pc = "new"
  /\ is_paused = FALSE
  /\ mode_all = FALSE
  /\ last_manual = FALSE
  /\ event = "None"
  /\ launch = "none"
  /\ sent = {}
  /\ items = <<>>
  /\ idx = 0
  /\ stats = ZeroStats
  /\ ai_text = "none"
  /\ okSends = [i \in Ids |-> 0]
  /\ lastFailed = "none"
  /\ cycles = 0
  /\ raises = 0
  /\ pendingRaise = FALSE
  /\ cycleManual = FALSE
  /\ cycleMode = FALSE
  /\ scrapeFailed = FALSE
  /\ outcome = "none"
  /\ checked = 0

\* no PriceReference is constructed by itself
ReferenceAtRest ==
  /\ sheet = <<>>
  /\ index = <<>>
  /\ rpc = "rest"
  /\ query = [title |-> <<>>, description |-> <<>>]
  /\ answer = [avg |-> None, model |-> None, mem |-> None]
  /\ asked = <<>>
  /\ capacity = None

Init == BotInit /\ ReferenceAtRest

\* run(): the event is created, the loop task and the polling start
Run ==
  /\ pc = "new"
  /\ pc' = "top"
  /\ event' = "clear"
  /\ UNCHANGED <<reference, is_paused, mode_all, last_manual, launch, sent, cycleVars, history>>

\* ---- handlers (they run while the loop is suspended at an await)
manual ==
  /\ pc \in Awaiting
  /\ raises < MaxRaises
  /\ raises' = raises + 1
  /\ IF event = "None"
     THEN UNCHANGED <<last_manual, event, pendingRaise>>
     ELSE /\ last_manual' = TRUE
          /\ event' = "set"
          /\ pendingRaise' = TRUE
  /\ UNCHANGED <<reference, pc, is_paused, mode_all, launch, sent, cycleVars, delivery, cycles,
                 cycleManual, cycleMode, scrapeFailed, outcome>>

toggle_mode ==
  /\ pc \in Awaiting
  /\ mode_all' = ~mode_all
  /\ UNCHANGED <<reference, pc, is_paused, last_manual, event, launch, sent, cycleVars, history>>

toggle_pause ==
  /\ pc \in Awaiting
  /\ is_paused' = ~is_paused
  /\ UNCHANGED <<reference, pc, mode_all, last_manual, event, launch, sent, cycleVars, history>>

\* ---- monitor_loop
\* items, stats and item are locals of one iteration of "while True": a new
\* iteration never reads them before it assigns them, so they are forgotten when
\* the iteration ends (and with them the history of the ended cycle).
NewIteration ==
  /\ items' = <<>>
  /\ idx' = 0
  /\ stats' = ZeroStats
  /\ ai_text' = "none"
  /\ checked' = 0
  /\ cycleManual' = FALSE
  /\ cycleMode' = FALSE
  /\ scrapeFailed' = FALSE
  /\ outcome' = "none"

\* if self.is_paused: await asyncio.sleep(1)
TopPaused ==
  /\ pc = "top"
  /\ is_paused
  /\ pc' = "sleep1"
  /\ NewIteration
  /\ UNCHANGED <<reference, control, launch, sent, delivery, cycles, raises, pendingRaise>>

\* ... continue
SleepDone ==
  /\ pc = "sleep1"
  /\ pc' = "top"
  /\ UNCHANGED <<reference, control, launch, sent, cycleVars, history>>

\* await asyncio.wait_for(self.force_search_event.wait(), timeout=CHECK_INTERVAL)
TopWait ==
  /\ pc = "top"
  /\ ~is_paused
  /\ pc' = "waiting"
  /\ NewIteration
  /\ UNCHANGED <<reference, control, launch, sent, delivery, cycles, raises, pendingRaise>>

\* the event is set: the wait returns
EventWake ==
  /\ pc = "waiting"
  /\ event = "set"
  /\ pc' = "woken"
  /\ launch' = "forced"
  /\ UNCHANGED <<reference, control, sent, cycleVars, history>>

\* CHECK_INTERVAL elapsed: asyncio.TimeoutError
TimerExpire ==
  /\ pc = "waiting"
  /\ pc' = "woken"
  /\ launch' = "auto"
  /\ UNCHANGED <<reference, control, sent, cycleVars, history>>

\* variant of StartCycle: the cycle starts without force_search_event.clear()
StartCycleNoClear ==
  /\ pc = "woken"
  /\ cycles < MaxCycles
  /\ pc' = "fetching"
  /\ cycles' = cycles + 1
  /\ cycleManual' = pendingRaise
  /\ cycleMode' = mode_all
  /\ scrapeFailed' = FALSE
  /\ pendingRaise' = FALSE
  /\ outcome' = "running"
  /\ UNCHANGED <<reference, control, launch, sent, cycleVars, delivery, raises>>

\* self.force_search_event.clear(); items = await self.parser.fetch(...)
StartCycle ==
  /\ pc = "woken"
  /\ cycles < MaxCycles
  /\ event' = "clear"
  /\ pc' = "fetching"
  /\ cycles' = cycles + 1
  /\ cycleManual' = pendingRaise
  /\ cycleMode' = mode_all
  /\ scrapeFailed' = FALSE
  /\ pendingRaise' = FALSE
  /\ outcome' = "running"
  /\ UNCHANGED <<reference, is_paused, mode_all, last_manual, launch, sent, cycleVars, delivery,
                 raises>>

\* variant of FetchReturn: force_search_event.clear() is called after the fetch
FetchReturnThenClear ==
  /\ pc = "fetching"
  /\ \E its \in FetchResults :
       /\ items' = its
       /\ stats' = [ZeroStats EXCEPT !.scanned = Len(its)]
  /\ idx' = 1
  /\ pc' = "item"
  /\ event' = "clear"
  /\ launch' = "none"
  /\ UNCHANGED <<reference, is_paused, mode_all, last_manual, sent, ai_text, history>>

\* fetch returns; stats = {...}; the for loop starts
FetchReturn ==
  /\ pc = "fetching"
  /\ \E its \in FetchResults :
       /\ items' = its
       /\ stats' = [ZeroStats EXCEPT !.scanned = Len(its)]
  /\ idx' = 1
  /\ pc' = "item"
  /\ launch' = "none"
  /\ UNCHANGED <<reference, control, sent, ai_text, history>>

\* fetch catches a PlaywrightError (a navigation timeout, a closed browser) and
\* returns the cards it appended before it
FetchCaught ==
  /\ pc = "fetching"
  /\ \E its \in FetchResults :
       /\ items' = its
       /\ stats' = [ZeroStats EXCEPT !.scanned = Len(its)]
  /\ idx' = 1
  /\ pc' = "item"
  /\ launch' = "none"
  /\ scrapeFailed' = TRUE
  /\ UNCHANGED <<reference, control, sent, ai_text, checked, delivery, cycles, raises,
                 pendingRaise, cycleManual, cycleMode, outcome>>

\* fetch raises (anything but the PlaywrightError it catches itself)
FetchRaise ==
  /\ pc = "fetching"
  /\ pc' = "backoff"
  /\ outcome' = "failed"
  /\ launch' = "none"
  /\ UNCHANGED <<reference, control, sent, cycleVars, delivery, cycles, raises,
                 pendingRaise, cycleManual, cycleMode, scrapeFailed>>

\* avg, model, mem = self.prices.find_price(item["title"], item["description"])
Matched == [l \in Catalog |-> find_price(l.title, l.description)]

\* variant of Decision: the narrow mode does not test "not avg"
DecisionIgnoringNoAvg(item, broad) ==
  LET avg == Matched[item].avg
  IN  IF ~broad /\ ~NoAvg(avg) /\ TooExpensive(item.price, avg[1])
      THEN "too_expensive"
      ELSE "send"

\* the filter of the for loop: "send", or the counter of the skip
Decision(item, broad) ==
  LET avg == Matched[item].avg
  IN  IF ~broad
      THEN IF NoAvg(avg) THEN "no_avg"
           ELSE IF TooExpensive(item.price, avg[1]) THEN "too_expensive"
           ELSE "send"
      ELSE "send"

\* for item in items: exhausted
ItemsDone ==
  /\ pc = "item"
  /\ idx > Len(items)
  /\ pc' = "report"
  /\ UNCHANGED <<reference, control, launch, sent, cycleVars, history>>

\* variant of ItemSkipSent: stats["new"] is raised before the dedup check
ItemSkipSentCounted ==
  /\ pc = "item"
  /\ idx <= Len(items)
  /\ is_sent(items[idx].id)
  /\ stats' = [stats EXCEPT !.new = @ + 1]
  /\ idx' = idx + 1
  /\ checked' = checked + 1
  /\ UNCHANGED <<reference, pc, control, launch, sent, items, ai_text, delivery, cycles, raises,
                 pendingRaise, cycleManual, cycleMode, scrapeFailed, outcome>>

\* if self.db.is_sent(item["id"]): continue
ItemSkipSent ==
  /\ pc = "item"
  /\ idx <= Len(items)
  /\ is_sent(items[idx].id)
  /\ idx' = idx + 1
  /\ checked' = checked + 1
  /\ UNCHANGED <<reference, pc, control, launch, sent, items, stats, ai_text, delivery, cycles,
                 raises, pendingRaise, cycleManual, cycleMode, scrapeFailed, outcome>>

\* stats["new"] += 1; not avg: stats["no_avg"] += 1; continue
ItemSkipNoAvg ==
  /\ pc = "item"
  /\ idx <= Len(items)
  /\ ~is_sent(items[idx].id)
  /\ Decision(items[idx], mode_all) = "no_avg"
  /\ stats' = [stats EXCEPT !.new = @ + 1, !.no_avg = @ + 1]
  /\ idx' = idx + 1
  /\ checked' = checked + 1
  /\ UNCHANGED <<reference, pc, control, launch, sent, items, ai_text, delivery, cycles, raises,
                 pendingRaise, cycleManual, cycleMode, scrapeFailed, outcome>>

\* stats["new"] += 1; price > avg * 1.2: stats["too_expensive"] += 1; continue
ItemSkipExpensive ==
  /\ pc = "item"
  /\ idx <= Len(items)
  /\ ~is_sent(items[idx].id)
  /\ Decision(items[idx], mode_all) = "too_expensive"
  /\ stats' = [stats EXCEPT !.new = @ + 1, !.too_expensive = @ + 1]
  /\ idx' = idx + 1
  /\ checked' = checked + 1
  /\ UNCHANGED <<reference, pc, control, launch, sent, items, ai_text, delivery, cycles, raises,
                 pendingRaise, cycleManual, cycleMode, scrapeFailed, outcome>>

\* variant of ItemInclude: the dispatch is started as a task of its own and the
\* for loop goes on to the next listing
ItemIncludeDetached ==
  /\ pc = "item"
  /\ idx <= Len(items)
  /\ ~is_sent(items[idx].id)
  /\ Decision(items[idx], mode_all) = "send"
  /\ stats' = [stats EXCEPT !.new = @ + 1, !.sent = @ + 1]
  /\ checked' = checked + 1
  /\ idx' = idx + 1
  /\ okSends' = [okSends EXCEPT ![items[idx].id] = @ + 1]
  /\ sent' = mark_sent(items[idx].id)
  /\ UNCHANGED <<reference, pc, control, launch, items, ai_text, lastFailed, cycles, raises,
                 pendingRaise, cycleManual, cycleMode, scrapeFailed, outcome>>

\* variant of ItemInclude: a pause cancels the rest of the cycle
ItemIncludeUnlessPaused ==
  /\ pc = "item"
  /\ idx <= Len(items)
  /\ ~is_sent(items[idx].id)
  /\ Decision(items[idx], mode_all) = "send"
  /\ IF is_paused
     THEN pc' = "report" /\ UNCHANGED <<stats, checked>>
     ELSE /\ stats' = [stats EXCEPT !.new = @ + 1]
          /\ checked' = checked + 1
          /\ pc' = "analyze"
  /\ UNCHANGED <<reference, control, launch, sent, items, idx, ai_text, delivery, cycles, raises,
                 pendingRaise, cycleManual, cycleMode, scrapeFailed, outcome>>

\* stats["new"] += 1; the filter lets the listing through: await self.ai.analyze(...)
ItemInclude ==
  /\ pc = "item"
  /\ idx <= Len(items)
  /\ ~is_sent(items[idx].id)
  /\ Decision(items[idx], mode_all) = "send"
  /\ stats' = [stats EXCEPT !.new = @ + 1]
  /\ checked' = checked + 1
  /\ pc' = "analyze"
  /\ UNCHANGED <<reference, control, launch, sent, items, idx, ai_text, delivery, cycles, raises,
                 pendingRaise, cycleManual, cycleMode, scrapeFailed, outcome>>

\* analyze returns the escaped answer of the model; await self._send_item(...)
AnalyzeOk ==
  /\ pc = "analyze"
  /\ ai_text' = "text"
  /\ pc' = "send"
  /\ UNCHANGED <<reference, control, launch, sent, items, idx, stats, checked, delivery, cycles,
                 raises, pendingRaise, cycleManual, cycleMode, scrapeFailed, outcome>>

\* variant of AnalyzeFallback: a listing whose AI call failed is not dispatched
AnalyzeFallbackSkips ==
  /\ pc = "analyze"
  /\ idx' = idx + 1
  /\ pc' = "item"
  /\ UNCHANGED <<reference, control, launch, sent, items, ai_text, stats, checked, delivery,
                 cycles, raises, pendingRaise, cycleManual, cycleMode, scrapeFailed, outcome>>

\* analyze returns a fixed text: no API key, or the request raised
AnalyzeFallback ==
  /\ pc = "analyze"
  /\ ai_text' = "fallback"
  /\ pc' = "send"
  /\ UNCHANGED <<reference, control, launch, sent, items, idx, stats, checked, delivery, cycles,
                 raises, pendingRaise, cycleManual, cycleMode, scrapeFailed, outcome>>

\* send_message delivered; self.db.mark_sent(item["id"]); stats["sent"] += 1;
\* await asyncio.sleep(0.8)
SendOkMarked ==
  /\ pc = "send"
  /\ okSends' = [okSends EXCEPT ![items[idx].id] = @ + 1]
  /\ sent' = mark_sent(items[idx].id)
  /\ stats' = [stats EXCEPT !.sent = @ + 1]
  /\ pc' = "pace"
  /\ UNCHANGED <<reference, control, launch, items, idx, ai_text, checked, lastFailed, cycles,
                 raises, pendingRaise, cycleManual, cycleMode, scrapeFailed, outcome>>

\* send_message delivered; mark_sent raises (sqlite3.Error): except Exception
SendOkMarkRaise ==
  /\ pc = "send"
  /\ okSends' = [okSends EXCEPT ![items[idx].id] = @ + 1]
  /\ pc' = "backoff"
  /\ outcome' = "failed"
  /\ UNCHANGED <<reference, control, launch, sent, cycleVars, lastFailed, cycles, raises,
                 pendingRaise, cycleManual, cycleMode, scrapeFailed>>

\* variant of SendRaise: the id is marked sent although the send raised
SendRaiseMarked ==
  /\ pc = "send"
  /\ sent' = mark_sent(items[idx].id)
  /\ pc' = "backoff"
  /\ outcome' = "failed"
  /\ lastFailed' = items[idx].id
  /\ UNCHANGED <<reference, control, launch, cycleVars, okSends, cycles, raises, pendingRaise,
                 cycleManual, cycleMode, scrapeFailed>>

\* _send_item raises (send_message failed): except Exception
SendRaise ==
  /\ pc = "send"
  /\ pc' = "backoff"
  /\ outcome' = "failed"
  /\ lastFailed' = items[idx].id
  /\ UNCHANGED <<reference, control, launch, sent, cycleVars, okSends, cycles, raises,
                 pendingRaise, cycleManual, cycleMode, scrapeFailed>>

\* the pacing sleep is over: next item
PaceDone ==
  /\ pc = "pace"
  /\ idx' = idx + 1
  /\ ai_text' = "none"
  /\ pc' = "item"
  /\ UNCHANGED <<reference, control, launch, sent, items, stats, checked, history>>

\* if self.last_manual: self.last_manual = False; await self.bot.send_message(summary)
ReportManual ==
  /\ pc = "report"
  /\ last_manual
  /\ last_manual' = FALSE
  /\ pc' = "summary"
  /\ UNCHANGED <<reference, is_paused, mode_all, event, launch, sent, cycleVars, history>>

\* last_manual is False: the cycle ends without a message
ReportNone ==
  /\ pc = "report"
  /\ ~last_manual
  /\ pc' = "top"
  /\ outcome' = "silent"
  /\ UNCHANGED <<reference, control, launch, sent, cycleVars, delivery, cycles, raises,
                 pendingRaise, cycleManual, cycleMode, scrapeFailed>>

\* the summary is delivered
SummarySent ==
  /\ pc = "summary"
  /\ pc' = "top"
  /\ outcome' = "summary"
  /\ UNCHANGED <<reference, control, launch, sent, cycleVars, delivery, cycles, raises,
                 pendingRaise, cycleManual, cycleMode, scrapeFailed>>

\* send_message of the summary raises: except Exception
SummaryRaise ==
  /\ pc = "summary"
  /\ pc' = "backoff"
  /\ outcome' = "failed"
  /\ UNCHANGED <<reference, control, launch, sent, cycleVars, delivery, cycles, raises,
                 pendingRaise, cycleManual, cycleMode, scrapeFailed>>

\* variant of BackoffDone: the exception ends monitor_loop (no "while True" around
\* the try)
LoopExits ==
  /\ pc = "backoff"
  /\ pc' = "exited"
  /\ UNCHANGED <<reference, control, launch, sent, cycleVars, history>>

\* logger.error; await asyncio.sleep(5) is over
BackoffDone ==
  /\ pc = "backoff"
  /\ pc' = "top"
  /\ UNCHANGED <<reference, control, launch, sent, cycleVars, history>>

Next ==
  \/ Run
  \/ manual
  \/ toggle_mode
  \/ toggle_pause
  \/ TopPaused
  \/ SleepDone
  \/ TopWait
  \/ EventWake
  \/ TimerExpire
  \/ StartCycle
  \/ FetchReturn
  \/ FetchCaught
  \/ FetchRaise
  \/ ItemsDone
  \/ ItemSkipSent
  \/ ItemSkipNoAvg
  \/ ItemSkipExpensive
  \/ ItemInclude
  \/ AnalyzeOk
  \/ AnalyzeFallback
  \/ SendOkMarked
  \/ SendOkMarkRaise
  \/ SendRaise
  \/ PaceDone
  \/ ReportManual
  \/ ReportNone
  \/ SummarySent
  \/ SummaryRaise
  \/ BackoffDone

Spec == Init /\ [][Next]_vars

\* the steps the loop takes by itself once the await it is suspended at returns
\* (every await of the loop ends: the sleeps, the fetch, the AI call, the sends);
\* the expiry of the interval timer is left out, so that nothing here relies on it
LoopStep ==
  \/ Run
  \/ TopPaused
  \/ SleepDone
  \/ TopWait
  \/ EventWake
  \/ StartCycle
  \/ FetchReturn
  \/ FetchCaught
  \/ FetchRaise
  \/ ItemsDone
  \/ ItemSkipSent
  \/ ItemSkipNoAvg
  \/ ItemSkipExpensive
  \/ ItemInclude
  \/ AnalyzeOk
  \/ AnalyzeFallback
  \/ SendOkMarked
  \/ SendOkMarkRaise
  \/ SendRaise
  \/ PaceDone
  \/ ReportManual
  \/ ReportNone
  \/ SummarySent
  \/ SummaryRaise
  \/ BackoffDone

\* the event loop resumes the monitor task whenever it can run
LiveSpec == Spec /\ WF_vars(LoopStep)

\* asyncio.wait_for: the timeout of the wait fires if the event does not
TimedSpec == LiveSpec /\ WF_vars(TimerExpire)

\* ------------------------------------------------------------------ PriceReference
\* Longest sheet a PriceReference is constructed from.
MaxSheetRows == 2

\* the variables of the bot
bot ==
  <<pc, is_paused, mode_all, last_manual, event, launch, sent, items, idx, stats,
    ai_text, okSends, lastFailed, cycles, raises, pendingRaise, cycleManual, cycleMode,
    scrapeFailed, outcome, checked>>

\* an empty cell of a text column: pandas reads it as NaN
NaNCell == <<"NaN">>

\* str.strip()
RECURSIVE LStrip(_)
LStrip(s) == IF s # <<>> /\ IsSpace(Head(s)) THEN LStrip(Tail(s)) ELSE s
RECURSIVE RStrip(_)
RStrip(s) ==
  IF s # <<>> /\ IsSpace(s[Len(s)]) THEN RStrip(SubSeq(s, 1, Len(s) - 1)) ELSE s
Strip(s) == LStrip(RStrip(s))

\* str(r.get(column, "")).lower().strip(): str(nan) is "nan"
CellText(cell) == IF cell = NaNCell THEN <<"n", "a", "n">> ELSE Strip(Lower(cell))

\* the cells of column mean: a number, an empty cell (NaN), a text that is no number
Number(v) == [kind |-> "float", v |-> v]
NaN == [kind |-> "nan", v |-> 0]
NoNumber == [kind |-> "str", v |-> 0]

\* the truth value Python gives a cell of column mean: nan is true, 0 is false,
\* a non-empty text is true
Truthy(mean) == IF mean.kind = "float" THEN mean.v # 0 ELSE TRUE

\* if model and memory and mean
Accepted(r) == CellText(r.model) # <<>> /\ CellText(r.memory) # <<>> /\ Truthy(r.mean)

\* float(mean) raises ValueError on a text that is no number
FloatRaises(mean) == mean.kind = "str"

\* the appends of the for loop over df.iterrows(); float(nan) is nan
RECURSIVE Appended(_)
Appended(sh) ==
  IF sh = <<>> THEN <<>>
  ELSE LET r == Head(sh)
       IN  (IF Accepted(r)
            THEN << [model |-> CellText(r.model), memory |-> CellText(r.memory),
                     mean |-> r.mean] >>
            ELSE <<>>) \o Appended(Tail(sh))

\* self.rows after __init__ read the sheet: an exception in the loop empties it
LoadedRows(sh) ==
  IF \E i \in 1..Len(sh) : Accepted(sh[i]) /\ FloatRaises(sh[i].mean)
  THEN <<>>
  ELSE Appended(sh)

Iphone13Cell == <<"i", "P", "h", "o", "n", "e", " ", "1", "3", " ">>
Mem128Cell == <<"1", "2", "8", "G", "B">>
Mem256 == <<"2", "5", "6", "g", "b">>

\* the rows a sheet may hold
SheetRows ==
  { [model |-> Iphone13Cell, memory |-> Mem128Cell, mean |-> Number(40000)],
    [model |-> Iphone13Pro, memory |-> Mem128, mean |-> Number(50000)],
    [model |-> Iphone13Pro, memory |-> Mem256, mean |-> Number(60000)],
    [model |-> NaNCell, memory |-> Mem128, mean |-> Number(30000)],
    [model |-> Iphone13, memory |-> NaNCell, mean |-> Number(40000)],
    [model |-> Iphone13, memory |-> Mem128, mean |-> NaN],
    [model |-> <<" ">>, memory |-> Mem128, mean |-> Number(40000)],
    [model |-> Iphone13, memory |-> Mem128, mean |-> Number(0)],
    [model |-> Iphone13, memory |-> Mem128, mean |-> NoNumber] }

Sheets == SeqsUpTo(SheetRows, MaxSheetRows)

\* the listings find_price is asked about
Queries ==
  { [title |-> TitleA1 \o <<" ">>, description |-> <<>>],
    [title |-> <<"i", "P", "h", "o", "n", "e", " ", "1", "3", " ", "P", "r", "o">>,
     description |-> Mem128Cell],
    [title |-> Iphone13Pro, description |-> <<"2", "5", "6", " ", "cyr_g", "cyr_b">>],
    [title |-> TitleA4, description |-> <<>>],
    [title |-> Iphone11, description |-> Mem128] }

\* the texts extract_memory is asked about: an optional model name, a number, blanks,
\* an optional unit
TextNumbers ==
  { <<"6", "4">>, <<"1", "2", "8">>, <<"2", "5", "6">>, <<"5", "1", "2">>,
    <<"1", "0", "2", "4">>, <<"1", "6">>, <<"2", "5", "6", "0", "0">>, <<"1">> }
TextBlanks == {<<>>, <<" ">>, <<" ", " ">>}
GbUnits == {GB, <<"G", "B">>, CyrGB}
TbUnits == {TB, <<"T", "B">>, CyrTB}
TextUnits == GbUnits \cup TbUnits \cup {<<>>}
TextHeads == {<<>>, Iphone13 \o <<" ">>}
Compose(head, num, blanks, unit) == head \o num \o blanks \o unit
Texts ==
  {Compose(h, n, b, u) : h \in TextHeads, n \in TextNumbers, b \in TextBlanks, u \in TextUnits}

RefInit ==
  /\ BotInit
  /\ sheet \in Sheets
  /\ index = <<>>
  /\ rpc = "new"
  /\ query = [title |-> <<>>, description |-> <<>>]
  /\ answer = [avg |-> None, model |-> None, mem |-> None]
  /\ asked = <<>>
  /\ capacity = None

\* PriceReference.__init__: the sheet is read
LoadSheet ==
  /\ rpc = "new"
  /\ index' = LoadedRows(sheet)
  /\ rpc' = "ready"
  /\ UNCHANGED <<bot, sheet, query, answer, asked, capacity>>

\* PriceReference.__init__: no file at the path, or read_excel raises
SheetUnreadable ==
  /\ rpc = "new"
  /\ index' = <<>>
  /\ rpc' = "ready"
  /\ UNCHANGED <<bot, sheet, query, answer, asked, capacity>>

\* extract_memory on each of the texts, find_price's combined texts included
Combined(q) == Lower(q.title \o <<" ">> \o q.description)
MemoryOf == [t \in Texts \cup {Combined(q) : q \in Queries} |-> extract_memory(t)]

\* a call of find_price (and, in it, of extract_memory on the combined text)
FindPriceCall ==
  /\ rpc = "ready"
  /\ \E q \in Queries :
       /\ query' = q
       /\ asked' = Combined(q)
       /\ capacity' = MemoryOf[Combined(q)]
       /\ answer' = find_price_in(index, q.title, q.description)
  /\ rpc' = "found"
  /\ UNCHANGED <<bot, sheet, index>>

\* a call of extract_memory
ExtractMemoryCall ==
  /\ rpc = "ready"
  /\ \E t \in Texts :
       /\ asked' = t
       /\ capacity' = MemoryOf[t]
  /\ rpc' = "extracted"
  /\ UNCHANGED <<bot, sheet, index, query, answer>>

RefNext ==
  \/ LoadSheet
  \/ SheetUnreadable
  \/ FindPriceCall
  \/ ExtractMemoryCall

RefSpec == RefInit /\ [][RefNext]_vars

\* ------------------------------------------------------------------ claims
\* the positions of the loop inside a scan cycle
InCycle == {"fetching", "item", "analyze", "send", "pace", "report", "summary"}

\* the listing the for loop is at
Current == items[idx]

\* C1: over any execution (send or mark_sent failures included) the notification of
\* a listing id is delivered at most once.
C1_AtMostOnce == \A i \in Ids : okSends[i] <= 1

\* C2: an id in the dedup store stays there (no step removes one, and mark_sent of
\* an id already stored changes nothing), and no dispatch is invoked for a listing
\* whose id is in the store, even when the scraper returns it again.
C2_SentIsPermanent ==
  /\ [](pc \in {"analyze", "send"} => Current.id \notin sent)
  /\ [](\A i \in sent : mark_sent(i) = sent)
  /\ [][sent \subseteq sent']_vars

\* C2 witness: a later cycle meets a listing whose id is in the store.
C2_Witness ==
  /\ cycles = 2
  /\ pc = "item"
  /\ idx <= Len(items)
  /\ Current.id \in sent
  /\ okSends[Current.id] = 1

\* C3: an id enters the dedup store only in the step in which the send of that
\* listing succeeded; a failed send leaves the store as it was, and a listing not
\* in the store that passes the filter is handed to the dispatch again.
C3_MarkOnlyAfterSend ==
  /\ [][\A i \in sent' \ sent :
          pc = "send" /\ Current.id = i /\ okSends'[i] = okSends[i] + 1]_vars
  /\ [][(pc = "send" /\ okSends' = okSends) => sent' = sent]_vars
  /\ [][(/\ pc = "item"
         /\ idx <= Len(items)
         /\ Current.id \notin sent
         /\ Decision(Current, mode_all) = "send") => pc' = "analyze"]_vars
  /\ [][pc = "analyze" => pc' \in {"analyze", "send"}]_vars
  /\ [](lastFailed # "none" /\ okSends[lastFailed] = 0 => lastFailed \notin sent)

\* C3 witness: the send of a listing failed in an earlier cycle, the listing is
\* not in the store and its dispatch is invoked again.
C3_Witness ==
  /\ cycles = 2
  /\ pc = "send"
  /\ Current.id = lastFailed
  /\ okSends[lastFailed] = 0
  /\ lastFailed \notin sent

\* C4: a failure on one listing does not abort the cycle: when the cycle has
\* ended, every listing of the scraper result went through the dedup check.
C4_FailureIsolated ==
  outcome \in {"failed", "silent", "summary"} => checked = Len(items)

\* C5: no scraper fetch starts while is_paused is true.
C5_NoFetchWhilePaused == [][(pc # "fetching" /\ pc' = "fetching") => ~is_paused]_vars

\* C6: a raise that coincides with the timer expiry starts one cycle: the signal
\* is set only while a raise waits to be consumed (the starting cycle clears it, so
\* no second cycle starts for it), a forced launch has a raise behind it, and a
\* cycle starts only when no cycle is in progress.
C6_OneCyclePerTrigger ==
  /\ [](event = "set" => pendingRaise)
  /\ []((pc = "woken" /\ launch = "forced") => pendingRaise)
  /\ [](outcome = "running" <=> pc \in InCycle)
  /\ [][cycles' # cycles =>
          /\ cycles' = cycles + 1
          /\ outcome # "running"
          /\ pc = "woken"
          /\ event' = "clear"
          /\ ~pendingRaise']_vars

\* C6 witness: the timer expired, the trigger was raised before the loop resumed,
\* and the one cycle that started consumed both.
C6_Witness ==
  /\ pc = "fetching"
  /\ launch = "auto"
  /\ cycleManual
  /\ event = "clear"
  /\ raises = 1

C8_ManualCycleSummary ==
  /\ (outcome = "silent" => ~cycleManual)
  /\ (pc = "summary" => cycleManual)

\* C9: a completed cycle started by the timer, with no manual trigger, emits a
\* summary if and only if it dispatched at least one listing.
C9_AutoSummaryIffDispatched ==
  (outcome \in {"silent", "summary"} /\ ~cycleManual /\ ~pendingRaise)
    => (outcome = "summary" <=> stats.sent > 0)

\* C10: in narrow mode a listing not in the store with matched mean M is handed to
\* the dispatch iff price <= 1.2 * M; above the threshold it is skipped, not marked
\* sent, and counted in too_expensive.
C10_NarrowThreshold ==
  /\ ~TooExpensive(1200, 1000)
  /\ TooExpensive(1201, 1000)
  /\ ~TooExpensive(38000, 40000)
  /\ [][(/\ pc = "item"
         /\ idx <= Len(items)
         /\ Current.id \notin sent
         /\ ~mode_all
         /\ Matched[Current].avg # None
         /\ vars' # vars)
        => LET M == Matched[Current].avg[1]
           IN  IF 5 * Current.price <= 6 * M
               THEN pc' = "analyze" /\ idx' = idx /\ stats'.too_expensive = stats.too_expensive
               ELSE /\ pc' = "item"
                    /\ idx' = idx + 1
                    /\ sent' = sent
                    /\ okSends' = okSends
                    /\ stats'.too_expensive = stats.too_expensive + 1
                    /\ stats'.sent = stats.sent]_vars

\* C10 witness: in one narrow-mode cycle a listing priced 6001 against a mean of
\* 5000 was skipped as too expensive and one priced 6000 is being dispatched.
C10_Witness ==
  /\ pc = "send"
  /\ ~mode_all
  /\ Current.price = 6000
  /\ Matched[Current].avg = Some(5000)
  /\ stats.too_expensive = 1
  /\ stats.new = 2

\* C11: in broad mode every listing not in the store is handed to the dispatch,
\* with or without a matched reference price; in narrow mode a listing not in the
\* store with no matched price is skipped: not dispatched, not marked sent, counted
\* in no_avg.  With an empty reference index no listing has a matched price.
C11_ModeAndNoReference ==
  /\ \A l \in AllListings : find_price_in(<<>>, l.title, l.description).avg = None
  /\ [][(/\ pc = "item"
         /\ idx <= Len(items)
         /\ Current.id \notin sent
         /\ vars' # vars)
        => IF mode_all
           THEN pc' = "analyze" /\ idx' = idx /\ stats'.no_avg = stats.no_avg
           ELSE NoAvg(Matched[Current].avg)
                  => /\ pc' = "item"
                     /\ idx' = idx + 1
                     /\ sent' = sent
                     /\ okSends' = okSends
                     /\ stats'.no_avg = stats.no_avg + 1
                     /\ stats'.sent = stats.sent]_vars

\* C11 witness: in broad mode a listing with no matched price was dispatched and
\* marked sent.
C11_Witness ==
  /\ pc = "pace"
  /\ mode_all
  /\ Matched[Current].avg = None
  /\ Current.id \in sent
  /\ okSends[Current.id] = 1

\* C11 witness of the narrow mode: the same listing was skipped and counted.
C11_NarrowSkipReached ==
  /\ pc = "report"
  /\ ~mode_all
  /\ stats.no_avg = 1
  /\ stats.sent = 0
  /\ sent = {}

\* the entries of the index whose model is in the combined text of the call and
\* whose memory is the extracted capacity
Candidates ==
  {i \in 1..Len(index) : IsSubstr(index[i].model, asked) /\ Some(index[i].memory) = capacity}

\* C12: find_price returns the candidate entry with the longest model (of several
\* that long, the first of the sheet), never an entry of another capacity; with no
\* capacity in the text it returns no match at all; with a capacity and no
\* candidate it returns no mean and no model but the capacity.
C12_LongestModelFirst ==
  rpc = "found" =>
    /\ asked = Combined(query)
    /\ capacity = None => answer = [avg |-> None, model |-> None, mem |-> None]
    /\ (capacity # None /\ Candidates = {})
         => answer = [avg |-> None, model |-> None, mem |-> capacity]
    /\ (capacity # None /\ Candidates # {})
         => /\ answer.mem = capacity
            /\ \E i \in Candidates :
                 /\ answer.avg = Some(index[i].mean)
                 /\ answer.model = Some(index[i].model)
                 /\ \A j \in Candidates :
                      /\ Len(index[j].model) <= Len(index[i].model)
                      /\ j < i => Len(index[j].model) < Len(index[i].model)

\* C12 witness: the sheet lists "iphone 13" before "iphone 13 pro", both of 128gb;
\* both are in the text of the listing and the longer one is returned.
C12_Witness ==
  /\ rpc = "found"
  /\ Len(index) = 2
  /\ index[1].model = Iphone13
  /\ index[2].model = Iphone13Pro
  /\ Candidates = {1, 2}
  /\ answer.model = Some(Iphone13Pro)
  /\ answer.avg = Some(Number(50000))
  /\ answer.mem = Some(Mem128)

\* the bare numbers that are a capacity in gigabytes
BareGb == { <<"6", "4">>, <<"1", "2", "8">>, <<"2", "5", "6">>, <<"5", "1", "2">> }
K1024 == <<"1", "0", "2", "4">>

\* what C13 says of the text made of number n, blanks and unit u (a number before
\* a unit is read as the pattern reads it: two to four digits, or the 1 of "1 tb")
CapacityAsClaimed(n, u, c) ==
  /\ (u \in GbUnits /\ Len(n) \in 2..4)
       => c = IF n = K1024 THEN Some(OneTB) ELSE Some(n \o GB)
  /\ (u \in TbUnits /\ (Len(n) \in 2..4 \/ n = <<"1">>)) => c = Some(OneTB)
  /\ (u = <<>> /\ n \in BareGb) => c = Some(n \o GB)
  /\ (u = <<>> /\ n = K1024) => c = Some(OneTB)
  /\ (u = <<>> /\ n \notin BareGb \cup {K1024}) => c = None

\* C13: extract_memory returns a capacity or none for every text: "<value>gb" for
\* a number followed (blanks allowed) by gb, "1tb" for the value 1024 or a tb unit,
\* "<value>gb" for a bare 64, 128, 256 or 512, "1tb" for a bare 1024, and none for
\* a text with no capacity token.
C13_ExtractMemory ==
  rpc = "extracted" =>
    /\ capacity = None \/ (Len(capacity) = 1 /\ SubSeq(capacity[1], Len(capacity[1]) - 1,
                                                      Len(capacity[1])) \in {GB, TB})
    /\ \A h \in TextHeads, n \in TextNumbers, b \in TextBlanks, u \in TextUnits :
         asked = Compose(h, n, b, u) => CapacityAsClaimed(n, u, capacity)

\* the part of C13 that the code keeps: every text but those whose only digits of
\* a capacity lie inside a longer number
C13_ExceptInsideLongerNumber ==
  rpc = "extracted" =>
    /\ capacity = None \/ (Len(capacity) = 1 /\ SubSeq(capacity[1], Len(capacity[1]) - 1,
                                                      Len(capacity[1])) \in {GB, TB})
    /\ \A h \in TextHeads, n \in TextNumbers, b \in TextBlanks, u \in TextUnits :
         (asked = Compose(h, n, b, u) /\ Len(n) <= 4) => CapacityAsClaimed(n, u, capacity)

\* the examples of C13 are among the texts and give the results it names
C13_ExamplesReached ==
  /\ rpc = "extracted"
  /\ asked = <<"2", "5", "6", " ", "cyr_g", "cyr_b">>
  /\ capacity = Some(Mem256)

\* C14: a failure in a cycle never ends the loop: the cycle is left only by its
\* end or into the except branch, whose backoff leads back to the top of the loop
\* and to Idle, and after a failed cycle a later cycle starts when the loop is not
\* kept paused (the interval timer or a manual trigger starts it).
C14_LoopSurvives ==
  /\ [][(pc \in InCycle /\ pc' \notin InCycle) => pc' \in {"top", "backoff"}]_vars
  /\ [](pc = "backoff" <=> outcome = "failed" /\ pc # "top")
  /\ [][pc = "backoff" => pc' \in {"backoff", "top"}]_vars
  /\ (pc = "backoff") ~> (pc \in {"waiting", "sleep1"})
  /\ (<>[]~is_paused) => ((pc = "backoff" /\ cycles < MaxCycles) ~> (outcome = "running"))

\* C14 witness: the send of a listing failed in the first cycle and a second cycle
\* has started.
C14_Witness ==
  /\ cycles = 2
  /\ pc = "fetching"
  /\ lastFailed # "none"
  /\ okSends[lastFailed] = 0

\* C15: the inclusion decisions of a cycle and the shape of its summary are those
\* of the mode that held when the cycle started: a toggle during the cycle changes
\* nothing in it.
C15_ModeReadAtCycleStart ==
  /\ [][(/\ pc = "item"
         /\ idx <= Len(items)
         /\ Current.id \notin sent
         /\ vars' # vars)
        => LET d == Decision(Current, cycleMode)
           IN  /\ d = "send" <=> pc' = "analyze"
               /\ d = "no_avg" <=> stats'.no_avg = stats.no_avg + 1
               /\ d = "too_expensive" <=> stats'.too_expensive = stats.too_expensive + 1]_vars
  /\ [][(pc = "report" /\ pc' = "summary") => mode_all = cycleMode]_vars

\* C16: a pause that arrives during a cycle neither cancels nor suspends it: the
\* loop goes to the pause sleep only from the top of the loop, a cycle is left
\* only when every listing went through the dedup check or by a failure, a paused
\* loop hands the listings that pass the filter to the dispatch as an unpaused one
\* does, and a cycle in progress with the pause set reaches its end.
C16_PauseOnlyAtTop ==
  /\ [][pc' = "sleep1" => (pc = "sleep1" \/ (pc = "top" /\ is_paused))]_vars
  /\ [][(pc \in InCycle /\ pc' \notin InCycle)
          => \/ pc' = "backoff" /\ outcome' = "failed"
             \/ pc' = "top" /\ checked' = Len(items') /\ outcome' \in {"silent", "summary"}]_vars
  /\ [][(/\ is_paused
         /\ pc = "item"
         /\ idx <= Len(items)
         /\ Current.id \notin sent
         /\ Decision(Current, mode_all) = "send"
         /\ vars' # vars) => pc' = "analyze" /\ checked' = checked + 1]_vars
  /\ [][(is_paused /\ pc \in {"analyze", "send", "pace"} /\ pc' # pc)
          => pc' \in {"send", "pace", "item", "backoff"}]_vars
  /\ (pc \in InCycle /\ is_paused) ~> (pc \in {"top", "backoff"})

\* C16 witness: the loop is paused and the second listing of the cycle has been
\* dispatched and marked sent after the first.
C16_Witness ==
  /\ is_paused
  /\ pc = "pace"
  /\ idx = 2
  /\ stats.sent = 2
  /\ Current.id \in sent

\* C17: a scraper failure aborts the cycle: after a fetch that met a browser or
\* network error no listing of that fetch is processed or dispatched and no
\* summary is produced; the cycle ends as a failure, through the backoff.
C17_ScrapeFailureAborts ==
  scrapeFailed =>
    /\ checked = 0
    /\ stats.sent = 0
    /\ pc \notin {"analyze", "send", "pace", "summary"}
    /\ outcome \notin {"silent", "summary"}

\* C18: the outcome of the AI call never gates the dispatch: the filter decides
\* before the call (no AI text exists at the dedup check and the filter), the call
\* ends with the answer or with the fixed fallback text and in both cases hands the
\* same listing to the dispatch, changing neither the store nor the counters, and
\* with the fallback text the send and mark_sent go on as with an answer.
C18_EnrichmentNeverGates ==
  /\ [](pc = "item" => ai_text = "none")
  /\ [](pc = "send" => ai_text \in {"text", "fallback"} /\ Current.id \notin sent)
  /\ []((pc = "send" /\ ai_text = "fallback") => ENABLED SendOkMarked)
  /\ [][(pc = "analyze" /\ pc' # pc)
          => /\ pc' = "send"
             /\ ai_text' \in {"text", "fallback"}
             /\ <<items, idx, sent, stats, okSends, checked>>' =
                  <<items, idx, sent, stats, okSends, checked>>]_vars
  /\ [][(pc = "send" /\ pc' = "pace")
          => /\ sent' = sent \cup {Current.id}
             /\ okSends'[Current.id] = okSends[Current.id] + 1
             /\ stats'.sent = stats.sent + 1]_vars

\* C18 witness: the AI call failed and the listing was dispatched with the fallback
\* text and marked sent.
C18_Witness ==
  /\ pc = "pace"
  /\ ai_text = "fallback"
  /\ Current.id \in sent
  /\ okSends[Current.id] = 1
  /\ stats.sent = 1

\* C19: the listings of a cycle are processed one at a time in the order of the
\* scraper result: the position in the result only moves forward by one, the
\* dedup checks are made in that order (checked counts them), a send or a
\* mark_sent is made only for the listing at the position, at the send await, and
\* the position moves on only after the pacing sleep that follows mark_sent or by
\* a skip.
C19_SequentialInOrder ==
  /\ [](pc = "item" => checked = idx - 1)
  /\ [](pc \in {"analyze", "send", "pace"} => idx \in 1..Len(items) /\ checked = idx)
  /\ [](pc \in {"report", "summary"} => idx = Len(items) + 1 /\ checked = Len(items))
  /\ [](pc = "pace" => Current.id \in sent)
  /\ [][(pc \in InCycle \ {"fetching"} /\ pc' \in InCycle)
          => items' = items /\ idx' \in {idx, idx + 1}]_vars
  /\ [][(pc \in InCycle \ {"fetching"} /\ idx' = idx + 1)
          => pc \in {"item", "pace"} /\ pc' = "item"]_vars
  /\ [][(okSends' # okSends \/ sent' # sent)
          => /\ pc = "send"
             /\ idx' = idx
             /\ \A i \in Ids \ {Current.id} : okSends'[i] = okSends[i]
             /\ sent' \subseteq sent \cup {Current.id}]_vars

\* C19 witness: the second listing of the result is at the send after the first
\* was dispatched and marked sent.
C19_Witness ==
  /\ pc = "send"
  /\ idx = 2
  /\ items[1].id \in sent
  /\ items[1].id # items[2].id
  /\ okSends[items[1].id] = 1
  /\ okSends[items[2].id] = 0
  /\ stats.sent = 1

\* a source row with a model, a capacity and a mean price in its cells
CompleteRow(r) ==
  /\ r.model # NaNCell /\ Strip(Lower(r.model)) # <<>>
  /\ r.memory # NaNCell /\ Strip(Lower(r.memory)) # <<>>
  /\ r.mean.kind = "float" /\ r.mean.v # 0

\* the entries of the complete rows of a sheet, in the order of the sheet
RECURSIVE CompleteEntries(_)
CompleteEntries(sh) ==
  IF sh = <<>> THEN <<>>
  ELSE LET r == Head(sh)
       IN  (IF CompleteRow(r)
            THEN << [model |-> Strip(Lower(r.model)), memory |-> Strip(Lower(r.memory)),
                     mean |-> r.mean] >>
            ELSE <<>>) \o CompleteEntries(Tail(sh))

\* C20: the index holds exactly the rows of the sheet that have a model, a
\* capacity and a mean price in their cells: every entry has a positive number as
\* its mean, an index that was filled is the list of the complete rows of the
\* sheet, and find_price never answers with a mean that is no positive number.
C20_IndexOfCompleteRows ==
  /\ \A i \in 1..Len(index) : index[i].mean.kind = "float" /\ index[i].mean.v > 0
  /\ index # <<>> => index = CompleteEntries(sheet)
  /\ (rpc = "found" /\ answer.avg # None)
       => answer.avg[1].kind = "float" /\ answer.avg[1].v > 0

\* C21: the counters of a cycle add up. When a cycle has ended without an
\* exception, new = sent + no_avg + too_expensive and new <= scanned, scanned being
\* the length of the scraper result and every listing having been through the
\* dedup check; between two listings the same sum holds, and while a listing is
\* being dispatched it is the one listing counted as new and under no outcome yet.
\* A listing is counted as new only at its dedup check and only if its id is not
\* in the store, and a counter is never lowered within a cycle. The store grows
\* only by steps of the cycle, and every such step raises sent by the number of
\* ids it adds, sent being 0 when the for loop starts: at the end of the cycle
\* sent is the number of ids the cycle added.
C21_CountersAddUp ==
  /\ []((pc = "top" /\ outcome \in {"silent", "summary"})
          => /\ stats.new = stats.sent + stats.no_avg + stats.too_expensive
             /\ stats.new <= stats.scanned
             /\ stats.scanned = Len(items)
             /\ checked = Len(items))
  /\ [](pc \in {"item", "pace", "report", "summary"}
          => stats.new = stats.sent + stats.no_avg + stats.too_expensive)
  /\ [](pc \in {"analyze", "send"}
          => stats.new = stats.sent + stats.no_avg + stats.too_expensive + 1)
  /\ [](pc \in InCycle \ {"fetching"} => stats.new <= checked /\ checked <= stats.scanned)
  /\ [][(pc = "fetching" /\ pc' = "item")
          => stats' = [ZeroStats EXCEPT !.scanned = Len(items')]]_vars
  /\ [][stats'.new # stats.new
          => \/ /\ pc = "item"
                /\ Current.id \notin sent
                /\ stats'.new = stats.new + 1
                /\ checked' = checked + 1
             \/ pc = "top" /\ stats' = ZeroStats]_vars
  /\ [][(pc \in InCycle \ {"fetching"})
          => /\ stats'.sent >= stats.sent
             /\ stats'.no_avg >= stats.no_avg
             /\ stats'.too_expensive >= stats.too_expensive
             /\ stats'.scanned = stats.scanned]_vars
  /\ [][/\ sent \subseteq sent'
        /\ Cardinality(sent') - Cardinality(sent) =
             IF pc \in InCycle \ {"fetching"} THEN stats'.sent - stats.sent ELSE 0]_vars

\* C21 witness: a cycle of two listings ended without an exception, one listing
\* dispatched and one skipped for want of a reference price, the mode having been
\* toggled while the cycle ran.
C21_Witness ==
  /\ pc = "top"
  /\ outcome \in {"silent", "summary"}
  /\ stats.scanned = 2
  /\ stats.new = 2
  /\ stats.sent = 1
  /\ stats.no_avg = 1
  /\ cycleMode
  /\ ~mode_all

\* C21, second case reached: a listing already in the store is scanned and counted
\* under no outcome (new < scanned).
C21_SeenListingReached ==
  /\ pc = "top"
  /\ outcome \in {"silent", "summary"}
  /\ stats.scanned = 2
  /\ stats.new = 1
  /\ is_paused

====
